---- MODULE Spec2Model ----
(***************************************************************************)
(* Session authentication, the in-memory account store and the guarded     *)
(* news / project handlers of the content site (server side).              *)
(*                                                                         *)
(* A JavaScript object is a function from field names to values; object    *)
(* spread is Merge.  Every request is made by a client that presents the   *)
(* session cookie it holds.  The registration handler is modelled twice:   *)
(* split at its awaits (RegisterCheck, RegisterHash, RegisterCreate) for   *)
(* concurrent requests, and as one step (Register).  The other handlers    *)
(* run as one step.  Timestamps (createdAt, updatedAt) and the expiry of   *)
(* sessions are not part of the state.  The server constructs MemStorage;  *)
(* the account methods of PostgresStorage are modelled apart, with queries *)
(* that may fail.                                                          *)
(***************************************************************************)
EXTENDS Integers, FiniteSets, Sequences, TLC

\* ------------------------------------------------------------------ bounds
MaxUsers == 2
MaxSid == 3
MaxItems == 2

Clients == {"c1", "c2"}
Usernames == {"alice", "bob"}
Passwords == {"pw1", "pw2"}
Salts == {"s1", "s2"}

NoUser == 0
NoSid == 0

\* ------------------------------------------------------------ plain values
\* { ...a, ...b }
Merge(a, b) ==
    [f \in (DOMAIN a) \cup (DOMAIN b) |-> IF f \in DOMAIN b THEN b[f] ELSE a[f]]

\* the object without one field (delete o.f, or a destructuring rest)
Without(o, field) == [f \in (DOMAIN o) \ {field} |-> o[f]]

Has(o, field) == field \in DOMAIN o

EmptyObj == [f \in {} |-> 0]

\* null, as a value of a string-valued field
Null == "null"

\* A password-valued string: a bcrypt digest carries its salt, a raw string
\* carries none.
Raw(p) == [alg |-> "raw", salt |-> "", pre |-> p]

Bcrypt(p, s) == [alg |-> "bcrypt", salt |-> s, pre |-> p]

\* bcryptjs keys its cipher with the first 72 bytes of the password and reads
\* no byte after them
BcryptKeyBytes == 72

bcryptKey(s) == IF Len(s) > BcryptKeyBytes THEN SubSeq(s, 1, BcryptKeyBytes) ELSE s

\* a hashPassword that returns the password as it came
hashPasswordPlain(password, salt) == password

\* bcrypt.hash(password, salt) of a request's password string
hashPassword(password, salt) == Bcrypt(bcryptKey(password.pre), salt)

\* bcrypt.compare: false for a stored string that is no digest, else the
\* supplied string hashed with the digest's salt must reproduce the digest
comparePasswords(supplied, stored) ==
    /\ stored.alg = "bcrypt"
    /\ hashPassword(supplied, stored.salt) = stored

\* ---------------------------------------------------------------- state
VARIABLES
    users,         \* MemStorage.users: id -> User
    userId,        \* MemStorage.userId
    newsItems,     \* MemStorage.newsItems: id -> News
    newsId,        \* MemStorage.newsId
    projectItems,  \* MemStorage.projectItems: id -> Project
    projectId,     \* MemStorage.projectId
    sessions,      \* the session store: sid -> session.passport.user, NoUser when absent
    nextSid,       \* the next session identifier the store generates
    cookie,        \* the session cookie each client holds
    pc,            \* where each client's registration request stands
    req,           \* the registration request in flight of each client
    resp           \* the last response sent

vars == <<users, userId, newsItems, newsId, projectItems, projectId,
          sessions, nextSid, cookie, pc, req, resp>>

storeVars == <<users, userId, newsItems, newsId, projectItems, projectId>>

Sids == 1..MaxSid

\* A response: who asked, which endpoint, the status, the message of an error
\* body, and the account objects the body carries.
NoResp ==
    [client |-> "", op |-> "", id |-> 0, status |-> 0, message |-> "", accounts |-> {}]

Fail(c, op, status, message) ==
    [client |-> c, op |-> op, id |-> 0, status |-> status, message |-> message,
     accounts |-> {}]

Ok(c, op, status, accounts) ==
    [client |-> c, op |-> op, id |-> 0, status |-> status, message |-> "",
     accounts |-> accounts]

\* the response of a handler of one item, /api/news/:id or /api/projects/:id
OfItem(response, id) == [response EXCEPT !.id = id]

\* ---------------------------------------------------------- account store
getUser(id) == IF id \in DOMAIN users THEN {users[id]} ELSE {}

\* a lookup that compares the wrong field and never finds an account
getUserByUsernameNeverFinds(username) == {}

\* Array.from(users.values()).find(...): the first match in insertion order,
\* which is the order of the ids
getUserByUsername(username) ==
    LET ids == {j \in DOMAIN users : users[j].username = username}
    IN  {users[i] : i \in {j \in ids : \A k \in ids : j <= k}}

getAllUsers == {users[i] : i \in DOMAIN users}

\* a role that is stored as the input gives it, null when it gives none
RoleAsGiven(insertUser) ==
    IF Has(insertUser, "role") THEN insertUser.role ELSE Null

\* role || "user": a missing or empty role becomes "user"
RoleOrDefault(insertUser) ==
    IF Has(insertUser, "role") /\ insertUser.role /= "" THEN insertUser.role ELSE "user"

NewUser(insertUser, id) ==
    Merge(Without(insertUser, "role"),
          [id |-> id, avatar |-> Null, bio |-> Null, role |-> RoleOrDefault(insertUser)])

\* a createUser that does not advance the id counter
createUserSameId(insertUser) ==
    /\ users' = (userId :> NewUser(insertUser, userId)) @@ users
    /\ userId' = userId

\* MemStorage.createUser: users.set(id, user) with id = this.userId++
createUser(insertUser) ==
    /\ users' = (userId :> NewUser(insertUser, userId)) @@ users
    /\ userId' = userId + 1

\* ------------------------------------------------------------- sessions
\* passport.session + deserializeUser: the account of the presented session
SessionUserId(c) ==
    IF cookie[c] = NoSid THEN NoUser ELSE sessions[cookie[c]]

\* an identity that keeps the role its account was registered with
reqUserAsRegistered(c) ==
    {Merge(u, [role |-> "user"]) : u \in getUser(SessionUserId(c))}

\* deserializeUser: req.user is the account storage.getUser(id) resolves now
reqUser(c) == getUser(SessionUserId(c))

reqIsAuthenticated(c) == reqUser(c) /= {}

TheUser(c) == CHOOSE u \in reqUser(c) : TRUE

\* a login that writes the account into the session the client presented,
\* and generates an identifier only when there is none
reqLoginSameSession(c, user) ==
    IF cookie[c] /= NoSid
    THEN /\ sessions' = [sessions EXCEPT ![cookie[c]] = user.id]
         /\ UNCHANGED <<cookie, nextSid>>
    ELSE /\ nextSid <= MaxSid
         /\ sessions' = [sessions EXCEPT ![nextSid] = user.id]
         /\ cookie' = [cookie EXCEPT ![c] = nextSid]
         /\ nextSid' = nextSid + 1

\* req.login: the session is regenerated, serializeUser stores user.id in it
reqLogin(c, user) ==
    /\ nextSid <= MaxSid
    /\ sessions' = [s \in Sids |->
                      IF s = nextSid THEN user.id
                      ELSE IF s = cookie[c] THEN NoUser
                      ELSE sessions[s]]
    /\ cookie' = [cookie EXCEPT ![c] = nextSid]
    /\ nextSid' = nextSid + 1

\* a logout that answers without touching the session
reqLogoutKeepsSession(c) == UNCHANGED <<sessions, cookie, nextSid>>

\* req.logout: the login is removed from the session and the session destroyed
reqLogout(c) ==
    /\ sessions' = [s \in Sids |-> IF s = cookie[c] THEN NoUser ELSE sessions[s]]
    /\ UNCHANGED <<cookie, nextSid>>

\* a response copy that keeps every field
SafeUserKeepsAll(user) == user

\* { ...user } with password deleted, or the rest of { password, ...safeUser }
SafeUser(user) == Without(user, "password")

\* ---------------------------------------------------------------- Init
Init ==
    /\ users = [i \in {} |-> EmptyObj]
    /\ userId = 1
    /\ newsItems = [i \in {} |-> EmptyObj]
    /\ newsId = 1
    /\ projectItems = [i \in {} |-> EmptyObj]
    /\ projectId = 1
    /\ sessions = [s \in Sids |-> NoUser]
    /\ nextSid = 1
    /\ cookie = [c \in Clients |-> NoSid]
    /\ pc = [c \in Clients |-> "idle"]
    /\ req = [c \in Clients |-> EmptyObj]
    /\ resp = NoResp

\* ------------------------------------------------------------ registration
RegisterBodies ==
    {[username |-> u, password |-> Raw(p)] : u \in Usernames, p \in Passwords}
    \cup {[username |-> u, password |-> Raw(p), role |-> r] :
            u \in Usernames, p \in Passwords, r \in {"user", "admin"}}

\* registrations past their check (each will take an account id and a session id)
InFlight == Cardinality({c \in Clients : pc[c] /= "idle"})

\* POST /api/register up to the await of getUserByUsername and the check of
\* its result
RegisterCheck(c, body) ==
    /\ pc[c] = "idle"
    /\ IF getUserByUsername(body.username) /= {}
       THEN /\ resp' = Fail(c, "register", 400, "username taken")
            /\ UNCHANGED <<pc, req>>
       ELSE /\ userId + InFlight <= MaxUsers
            /\ nextSid + InFlight <= MaxSid
            /\ pc' = [pc EXCEPT ![c] = "hash"]
            /\ req' = [req EXCEPT ![c] = body]
            /\ UNCHANGED resp
    /\ UNCHANGED <<storeVars, sessions, nextSid, cookie>>

\* await hashPassword(req.body.password)
RegisterHash(c, salt) ==
    /\ pc[c] = "hash"
    /\ pc' = [pc EXCEPT ![c] = "create"]
    /\ req' = [req EXCEPT ![c] =
                 Merge(req[c], [password |-> hashPassword(req[c].password, salt)])]
    /\ UNCHANGED <<storeVars, sessions, nextSid, cookie, resp>>

\* storage.createUser, req.login and the 201 response
RegisterCreate(c) ==
    /\ pc[c] = "create"
    /\ createUser(req[c])
    /\ reqLogin(c, users'[userId])
    /\ resp' = Ok(c, "register", 201, {SafeUser(users'[userId])})
    /\ pc' = [pc EXCEPT ![c] = "idle"]
    /\ req' = [req EXCEPT ![c] = EmptyObj]
    /\ UNCHANGED <<newsItems, newsId, projectItems, projectId>>

\* ------------------------------------------------------------------ login
LoginBodies ==
    {[username |-> u, password |-> Raw(p)] : u \in Usernames, p \in Passwords}

\* the LocalStrategy verify callback: done(null, user) or done(null, false)
LocalStrategyVerify(username, password) ==
    {u \in getUserByUsername(username) : comparePasswords(password, u.password)}

\* a failure response that tells an unknown username from a wrong password
LoginFailureTelling(c, username, password) ==
    IF getUserByUsername(username) = {}
    THEN Fail(c, "login", 404, "unknown username")
    ELSE Fail(c, "login", 401, "wrong password")

\* the 401 of the login endpoint
LoginFailure(c, username, password) == Fail(c, "login", 401, "bad username or password")

\* a login whose rejection also ends the login the caller's session held
LoginRejectionLogsOut(c, body) ==
    /\ pc[c] = "idle"
    /\ LET found == LocalStrategyVerify(body.username, body.password)
       IN  IF found = {}
           THEN /\ resp' = LoginFailure(c, body.username, body.password)
                /\ reqLogout(c)
           ELSE LET user == CHOOSE u \in found : TRUE
                IN  /\ reqLogin(c, user)
                    /\ resp' = Ok(c, "login", 200, {SafeUser(user)})
    /\ UNCHANGED <<storeVars, pc, req>>

\* a login that answers with the role the request asserts
LoginTrustsRole(c, body) ==
    /\ pc[c] = "idle"
    /\ LET found == LocalStrategyVerify(body.username, body.password)
       IN  IF found = {}
           THEN /\ resp' = LoginFailure(c, body.username, body.password)
                /\ UNCHANGED <<sessions, nextSid, cookie>>
           ELSE LET user == CHOOSE u \in found : TRUE
                    seen == IF Has(body, "role")
                            THEN Merge(user, [role |-> body.role])
                            ELSE user
                IN  /\ reqLogin(c, user)
                    /\ resp' = Ok(c, "login", 200, {SafeUser(seen)})
    /\ UNCHANGED <<storeVars, pc, req>>

\* POST /api/login
Login(c, body) ==
    /\ pc[c] = "idle"
    /\ LET found == LocalStrategyVerify(body.username, body.password)
       IN  IF found = {}
           THEN /\ resp' = LoginFailure(c, body.username, body.password)
                /\ UNCHANGED <<sessions, nextSid, cookie>>
           ELSE LET user == CHOOSE u \in found : TRUE
                IN  /\ reqLogin(c, user)
                    /\ resp' = Ok(c, "login", 200, {SafeUser(user)})
    /\ UNCHANGED <<storeVars, pc, req>>

\* a logout that refuses a caller whose session resolves to no account
LogoutStrict(c) ==
    /\ pc[c] = "idle"
    /\ IF reqIsAuthenticated(c)
       THEN /\ reqLogout(c)
            /\ resp' = Ok(c, "logout", 200, {})
       ELSE /\ resp' = Fail(c, "logout", 401, "not authorized")
            /\ UNCHANGED <<sessions, cookie, nextSid>>
    /\ UNCHANGED <<storeVars, pc, req>>

\* POST /api/logout
Logout(c) ==
    /\ pc[c] = "idle"
    /\ reqLogout(c)
    /\ resp' = Ok(c, "logout", 200, {})
    /\ UNCHANGED <<storeVars, pc, req>>

\* a current-identity endpoint that answers from the session alone
GetCurrentUserTrustsSession(c) ==
    /\ pc[c] = "idle"
    /\ resp' = IF SessionUserId(c) = NoUser
               THEN Fail(c, "user", 401, "not authorized")
               ELSE Ok(c, "user", 200, {SafeUser(u) : u \in reqUser(c)})
    /\ UNCHANGED <<storeVars, sessions, nextSid, cookie, pc, req>>

\* GET /api/user
GetCurrentUser(c) ==
    /\ pc[c] = "idle"
    /\ resp' = IF ~reqIsAuthenticated(c)
               THEN Fail(c, "user", 401, "not authorized")
               ELSE Ok(c, "user", 200, {SafeUser(TheUser(c))})
    /\ UNCHANGED <<storeVars, sessions, nextSid, cookie, pc, req>>

\* A client presents a session cookie that was issued to some client before
\* (copied, stolen or planted).
PresentCookie(c, sid) ==
    /\ pc[c] = "idle"
    /\ sid < nextSid
    /\ sid /= cookie[c]
    /\ cookie' = [cookie EXCEPT ![c] = sid]
    /\ UNCHANGED <<storeVars, sessions, nextSid, pc, req, resp>>

\* ------------------------------------------------------------------ guards
\* isAuthenticated: 0 lets the request through, else the status of the denial
isAuthenticated(c) == IF ~reqIsAuthenticated(c) THEN 401 ELSE 0

\* an admin guard that lets every authenticated caller through
isAdminAnyRole(c) == IF ~reqIsAuthenticated(c) THEN 401 ELSE 0

\* isAdmin
isAdmin(c) ==
    IF ~reqIsAuthenticated(c) THEN 401
    ELSE IF TheUser(c).role /= "admin" THEN 403
    ELSE 0

GuardMessage(status) ==
    IF status = 401 THEN "authorization required" ELSE "admin rights required"

\* ------------------------------------------------------------------- users
\* GET /api/users
GetUsers(c) ==
    /\ pc[c] = "idle"
    /\ resp' = IF isAdmin(c) /= 0
               THEN Fail(c, "users", isAdmin(c), GuardMessage(isAdmin(c)))
               ELSE Ok(c, "users", 200, {SafeUser(u) : u \in getAllUsers})
    /\ UNCHANGED <<storeVars, sessions, nextSid, cookie, pc, req>>

UsernameMin == 3
UsernameMax == 50
BioMax == 500

\* updateUserProfileSchema.parse(body) succeeds; keys the schema does not name
\* are not an error
updateUserProfileSchema(body) ==
    /\ Has(body, "username") =>
         Len(body.username) >= UsernameMin /\ Len(body.username) <= UsernameMax
    /\ Has(body, "bio") => Len(body.bio) <= BioMax

ProfileBodies ==
    {[username |-> u] : u \in Usernames \cup {"al"}}
    \cup {[role |-> "admin"], [password |-> Raw("pw1")]}

\* MemStorage.updateUserProfile for a stored id
updateUserProfile(id, profile) ==
    users' = [users EXCEPT ![id] = Merge(users[id], profile)]

\* PUT /api/users/profile
PutProfile(c, body) ==
    /\ pc[c] = "idle"
    /\ IF isAuthenticated(c) /= 0
       THEN /\ resp' = Fail(c, "profile", 401, GuardMessage(401))
            /\ UNCHANGED users
       ELSE IF ~updateUserProfileSchema(body)
       THEN /\ resp' = Fail(c, "profile", 400, "validation error")
            /\ UNCHANGED users
       ELSE IF TheUser(c).id \notin DOMAIN users
       THEN /\ resp' = Fail(c, "profile", 404, "user not found")
            /\ UNCHANGED users
       ELSE /\ updateUserProfile(TheUser(c).id, body)
            /\ resp' = Ok(c, "profile", 200, {SafeUser(users'[TheUser(c).id])})
    /\ UNCHANGED <<userId, newsItems, newsId, projectItems, projectId,
                   sessions, nextSid, cookie, pc, req>>

\* -------------------------------------------------------------- news, projects
\* a check that forgets the administrator
ownerOnly(user, item) == item.userId = user.id

\* the owner-or-admin check of the update and delete handlers
ownerOrAdmin(user, item) == user.role = "admin" \/ item.userId = user.id

\* insertNewsSchema.parse(body) succeeds
insertNewsSchema(body) ==
    Has(body, "title") /\ Has(body, "content") /\ Has(body, "userId")

\* insertProjectSchema.parse(body) succeeds
insertProjectSchema(body) ==
    Has(body, "title") /\ Has(body, "description") /\ Has(body, "userId")

NewsBodies ==
    {[title |-> "t1", content |-> "x", userId |-> 9], [title |-> "t1"]}

ProjectBodies ==
    {[title |-> "t1", description |-> "x", userId |-> 9], [title |-> "t1"]}

UpdateBodies == {[title |-> "t2"]} \cup {[userId |-> u] : u \in 1..2}

\* field || fallback
OrElse(o, field, fallback) == IF Has(o, field) THEN o[field] ELSE fallback

\* MemStorage.createNews
createNews(newsItem) ==
    /\ newsItems' = (newsId :> Merge(newsItem,
                        [id |-> newsId, files |-> OrElse(newsItem, "files", <<>>)]))
                    @@ newsItems
    /\ newsId' = newsId + 1

\* MemStorage.createProject
createProject(projectItem) ==
    /\ projectItems' = (projectId :> Merge(projectItem,
                           [id |-> projectId,
                            imageUrl |-> OrElse(projectItem, "imageUrl", ""),
                            url |-> OrElse(projectItem, "url", ""),
                            files |-> OrElse(projectItem, "files", <<>>)]))
                       @@ projectItems
    /\ projectId' = projectId + 1

\* Map.delete
MapDelete(map, id) == [i \in (DOMAIN map) \ {id} |-> map[i]]

\* a creation that stores the body's userId
PostNewsTrustsBody(c, body) ==
    /\ pc[c] = "idle"
    /\ IF isAdmin(c) /= 0
       THEN /\ resp' = Fail(c, "postNews", isAdmin(c), GuardMessage(isAdmin(c)))
            /\ UNCHANGED <<newsItems, newsId>>
       ELSE IF ~insertNewsSchema(body)
       THEN /\ resp' = Fail(c, "postNews", 400, "validation error")
            /\ UNCHANGED <<newsItems, newsId>>
       ELSE /\ (newsId - 1) + (projectId - 1) < MaxItems
            /\ createNews(body)
            /\ resp' = OfItem(Ok(c, "postNews", 201, {}), newsId)
    /\ UNCHANGED <<users, userId, projectItems, projectId,
                   sessions, nextSid, cookie, pc, req>>

\* POST /api/news
PostNews(c, body) ==
    /\ pc[c] = "idle"
    /\ IF isAdmin(c) /= 0
       THEN /\ resp' = Fail(c, "postNews", isAdmin(c), GuardMessage(isAdmin(c)))
            /\ UNCHANGED <<newsItems, newsId>>
       ELSE IF ~insertNewsSchema(body)
       THEN /\ resp' = Fail(c, "postNews", 400, "validation error")
            /\ UNCHANGED <<newsItems, newsId>>
       ELSE /\ (newsId - 1) + (projectId - 1) < MaxItems
            /\ createNews(Merge(body, [userId |-> TheUser(c).id]))
            /\ resp' = OfItem(Ok(c, "postNews", 201, {}), newsId)
    /\ UNCHANGED <<users, userId, projectItems, projectId,
                   sessions, nextSid, cookie, pc, req>>

\* PUT /api/news/:id
PutNews(c, id, body) ==
    /\ pc[c] = "idle"
    /\ IF isAuthenticated(c) /= 0
       THEN /\ resp' = OfItem(Fail(c, "putNews", 401, GuardMessage(401)), id)
            /\ UNCHANGED newsItems
       ELSE IF id \notin DOMAIN newsItems
       THEN /\ resp' = OfItem(Fail(c, "putNews", 404, "news not found"), id)
            /\ UNCHANGED newsItems
       ELSE IF ~ownerOrAdmin(TheUser(c), newsItems[id])
       THEN /\ resp' = OfItem(Fail(c, "putNews", 403, "no right to edit"), id)
            /\ UNCHANGED newsItems
       ELSE /\ newsItems' = [newsItems EXCEPT ![id] = Merge(newsItems[id], body)]
            /\ resp' = OfItem(Ok(c, "putNews", 200, {}), id)
    /\ UNCHANGED <<users, userId, newsId, projectItems, projectId,
                   sessions, nextSid, cookie, pc, req>>

\* a delete that removes the item before it checks the caller's right to
DeleteNewsBeforeCheck(c, id) ==
    /\ pc[c] = "idle"
    /\ IF isAuthenticated(c) /= 0
       THEN /\ resp' = OfItem(Fail(c, "deleteNews", 401, GuardMessage(401)), id)
            /\ UNCHANGED newsItems
       ELSE IF id \notin DOMAIN newsItems
       THEN /\ resp' = OfItem(Fail(c, "deleteNews", 404, "news not found"), id)
            /\ UNCHANGED newsItems
       ELSE /\ newsItems' = MapDelete(newsItems, id)
            /\ resp' = IF ~(TheUser(c).role = "admin" \/ newsItems[id].userId = TheUser(c).id)
                       THEN OfItem(Fail(c, "deleteNews", 403, "no right to delete"), id)
                       ELSE OfItem(Ok(c, "deleteNews", 204, {}), id)
    /\ UNCHANGED <<users, userId, newsId, projectItems, projectId,
                   sessions, nextSid, cookie, pc, req>>

\* DELETE /api/news/:id
DeleteNews(c, id) ==
    /\ pc[c] = "idle"
    /\ IF isAuthenticated(c) /= 0
       THEN /\ resp' = OfItem(Fail(c, "deleteNews", 401, GuardMessage(401)), id)
            /\ UNCHANGED newsItems
       ELSE IF id \notin DOMAIN newsItems
       THEN /\ resp' = OfItem(Fail(c, "deleteNews", 404, "news not found"), id)
            /\ UNCHANGED newsItems
       ELSE IF ~ownerOrAdmin(TheUser(c), newsItems[id])
       THEN /\ resp' = OfItem(Fail(c, "deleteNews", 403, "no right to delete"), id)
            /\ UNCHANGED newsItems
       ELSE /\ newsItems' = MapDelete(newsItems, id)
            /\ resp' = OfItem(Ok(c, "deleteNews", 204, {}), id)
    /\ UNCHANGED <<users, userId, newsId, projectItems, projectId,
                   sessions, nextSid, cookie, pc, req>>

\* POST /api/projects
PostProject(c, body) ==
    /\ pc[c] = "idle"
    /\ IF isAdmin(c) /= 0
       THEN /\ resp' = Fail(c, "postProject", isAdmin(c), GuardMessage(isAdmin(c)))
            /\ UNCHANGED <<projectItems, projectId>>
       ELSE IF ~insertProjectSchema(body)
       THEN /\ resp' = Fail(c, "postProject", 400, "validation error")
            /\ UNCHANGED <<projectItems, projectId>>
       ELSE /\ (newsId - 1) + (projectId - 1) < MaxItems
            /\ createProject(Merge(body, [userId |-> TheUser(c).id]))
            /\ resp' = OfItem(Ok(c, "postProject", 201, {}), projectId)
    /\ UNCHANGED <<users, userId, newsItems, newsId,
                   sessions, nextSid, cookie, pc, req>>

\* PUT /api/projects/:id
PutProject(c, id, body) ==
    /\ pc[c] = "idle"
    /\ IF isAuthenticated(c) /= 0
       THEN /\ resp' = OfItem(Fail(c, "putProject", 401, GuardMessage(401)), id)
            /\ UNCHANGED projectItems
       ELSE IF id \notin DOMAIN projectItems
       THEN /\ resp' = OfItem(Fail(c, "putProject", 404, "project not found"), id)
            /\ UNCHANGED projectItems
       ELSE IF ~ownerOrAdmin(TheUser(c), projectItems[id])
       THEN /\ resp' = OfItem(Fail(c, "putProject", 403, "no right to edit"), id)
            /\ UNCHANGED projectItems
       ELSE /\ projectItems' = [projectItems EXCEPT ![id] = Merge(projectItems[id], body)]
            /\ resp' = OfItem(Ok(c, "putProject", 200, {}), id)
    /\ UNCHANGED <<users, userId, newsItems, newsId, projectId,
                   sessions, nextSid, cookie, pc, req>>

\* DELETE /api/projects/:id
DeleteProject(c, id) ==
    /\ pc[c] = "idle"
    /\ IF isAuthenticated(c) /= 0
       THEN /\ resp' = OfItem(Fail(c, "deleteProject", 401, GuardMessage(401)), id)
            /\ UNCHANGED projectItems
       ELSE IF id \notin DOMAIN projectItems
       THEN /\ resp' = OfItem(Fail(c, "deleteProject", 404, "project not found"), id)
            /\ UNCHANGED projectItems
       ELSE IF ~ownerOrAdmin(TheUser(c), projectItems[id])
       THEN /\ resp' = OfItem(Fail(c, "deleteProject", 403, "no right to delete"), id)
            /\ UNCHANGED projectItems
       ELSE /\ projectItems' = MapDelete(projectItems, id)
            /\ resp' = OfItem(Ok(c, "deleteProject", 204, {}), id)
    /\ UNCHANGED <<users, userId, newsItems, newsId, projectId,
                   sessions, nextSid, cookie, pc, req>>

\* -------------------------------------------------- deletes, await by await
\* DELETE /api/news/:id up to the await of storage.getNewsById and the checks
\* of its result
DeleteNewsCheck(c, id) ==
    /\ pc[c] = "idle"
    /\ IF isAuthenticated(c) /= 0
       THEN /\ resp' = OfItem(Fail(c, "deleteNews", 401, GuardMessage(401)), id)
            /\ UNCHANGED <<pc, req>>
       ELSE IF id \notin DOMAIN newsItems
       THEN /\ resp' = OfItem(Fail(c, "deleteNews", 404, "news not found"), id)
            /\ UNCHANGED <<pc, req>>
       ELSE IF ~ownerOrAdmin(TheUser(c), newsItems[id])
       THEN /\ resp' = OfItem(Fail(c, "deleteNews", 403, "no right to delete"), id)
            /\ UNCHANGED <<pc, req>>
       ELSE /\ pc' = [pc EXCEPT ![c] = "deleteNews"]
            /\ req' = [req EXCEPT ![c] = [id |-> id]]
            /\ UNCHANGED resp
    /\ UNCHANGED <<storeVars, sessions, nextSid, cookie>>

\* a delete that answers 204 whatever storage.deleteNews returned
DeleteNewsRemoveAlways204(c) ==
    /\ pc[c] = "deleteNews"
    /\ newsItems' = MapDelete(newsItems, req[c].id)
    /\ resp' = OfItem(Ok(c, "deleteNews", 204, {}), req[c].id)
    /\ pc' = [pc EXCEPT ![c] = "idle"]
    /\ req' = [req EXCEPT ![c] = EmptyObj]
    /\ UNCHANGED <<users, userId, newsId, projectItems, projectId,
                   sessions, nextSid, cookie>>

\* const success = await storage.deleteNews(newsId) and the response:
\* Map.delete returns whether the key was there
DeleteNewsRemove(c) ==
    /\ pc[c] = "deleteNews"
    /\ newsItems' = MapDelete(newsItems, req[c].id)
    /\ resp' = IF req[c].id \in DOMAIN newsItems
               THEN OfItem(Ok(c, "deleteNews", 204, {}), req[c].id)
               ELSE OfItem(Fail(c, "deleteNews", 404, "news not found"), req[c].id)
    /\ pc' = [pc EXCEPT ![c] = "idle"]
    /\ req' = [req EXCEPT ![c] = EmptyObj]
    /\ UNCHANGED <<users, userId, newsId, projectItems, projectId,
                   sessions, nextSid, cookie>>

\* DELETE /api/projects/:id up to the await of storage.getProjectById and the
\* checks of its result
DeleteProjectCheck(c, id) ==
    /\ pc[c] = "idle"
    /\ IF isAuthenticated(c) /= 0
       THEN /\ resp' = OfItem(Fail(c, "deleteProject", 401, GuardMessage(401)), id)
            /\ UNCHANGED <<pc, req>>
       ELSE IF id \notin DOMAIN projectItems
       THEN /\ resp' = OfItem(Fail(c, "deleteProject", 404, "project not found"), id)
            /\ UNCHANGED <<pc, req>>
       ELSE IF ~ownerOrAdmin(TheUser(c), projectItems[id])
       THEN /\ resp' = OfItem(Fail(c, "deleteProject", 403, "no right to delete"), id)
            /\ UNCHANGED <<pc, req>>
       ELSE /\ pc' = [pc EXCEPT ![c] = "deleteProject"]
            /\ req' = [req EXCEPT ![c] = [id |-> id]]
            /\ UNCHANGED resp
    /\ UNCHANGED <<storeVars, sessions, nextSid, cookie>>

\* const success = await storage.deleteProject(projectId) and the response
DeleteProjectRemove(c) ==
    /\ pc[c] = "deleteProject"
    /\ projectItems' = MapDelete(projectItems, req[c].id)
    /\ resp' = IF req[c].id \in DOMAIN projectItems
               THEN OfItem(Ok(c, "deleteProject", 204, {}), req[c].id)
               ELSE OfItem(Fail(c, "deleteProject", 404, "project not found"), req[c].id)
    /\ pc' = [pc EXCEPT ![c] = "idle"]
    /\ req' = [req EXCEPT ![c] = EmptyObj]
    /\ UNCHANGED <<users, userId, newsItems, newsId, projectId,
                   sessions, nextSid, cookie>>

\* -------------------------------------------------------- specifications
\* POST /api/register run without another request between its awaits
Register(c, body, salt) ==
    /\ pc[c] = "idle"
    /\ IF getUserByUsername(body.username) /= {}
       THEN /\ resp' = Fail(c, "register", 400, "username taken")
            /\ UNCHANGED <<users, userId, sessions, nextSid, cookie>>
       ELSE /\ userId <= MaxUsers
            /\ createUser(Merge(body, [password |-> hashPassword(body.password, salt)]))
            /\ reqLogin(c, users'[userId])
            /\ resp' = Ok(c, "register", 201, {SafeUser(users'[userId])})
    /\ UNCHANGED <<newsItems, newsId, projectItems, projectId, pc, req>>

\* Concurrent registrations: every interleaving of the handler's steps.
Next ==
    \/ \E c \in Clients, body \in RegisterBodies : RegisterCheck(c, body)
    \/ \E c \in Clients, salt \in Salts : RegisterHash(c, salt)
    \/ \E c \in Clients : RegisterCreate(c)

Spec == Init /\ [][Next]_vars

OnePassword == {b \in RegisterBodies : b.password = Raw("pw1")}

\* Accounts: registration, login, the account-carrying reads and the profile
\* update.
NextAccounts ==
    \/ \E c \in Clients, body \in OnePassword : Register(c, body, "s1")
    \/ \E c \in Clients, body \in LoginBodies : Login(c, body)
    \/ \E c \in Clients : GetCurrentUser(c)
    \/ \E c \in Clients : GetUsers(c)
    \/ \E c \in Clients, body \in ProfileBodies : PutProfile(c, body)

SpecAccounts == Init /\ [][NextAccounts]_vars

SessionRegisterBodies == {b \in OnePassword : ~Has(b, "role")}

\* Sessions: login, logout, the current-identity endpoint, and cookies that
\* travel between clients.
NextSessions ==
    \/ \E c \in Clients, body \in SessionRegisterBodies : RegisterCheck(c, body)
    \/ \E c \in Clients : RegisterHash(c, "s1")
    \/ \E c \in Clients : RegisterCreate(c)
    \/ \E c \in Clients, body \in LoginBodies : Login(c, body)
    \/ \E c \in Clients : Logout(c)
    \/ \E c \in Clients : GetCurrentUser(c)
    \/ \E c \in Clients, sid \in Sids : PresentCookie(c, sid)

SpecSessions == Init /\ [][NextSessions]_vars

\* One administrator and one standard user, and a profile update that asserts
\* a role.
ContentRegisterBodies ==
    {[username |-> "alice", password |-> Raw("pw1"), role |-> "admin"],
     [username |-> "bob", password |-> Raw("pw1")]}

ContentProfileBodies == {[role |-> "admin"]}

\* Content: the guarded handlers of news, projects and the profile.
NextContent ==
    \/ \E c \in Clients, body \in ContentRegisterBodies : Register(c, body, "s1")
    \/ \E c \in Clients, body \in NewsBodies : PostNews(c, body)
    \/ \E c \in Clients, id \in 1..MaxItems, body \in UpdateBodies : PutNews(c, id, body)
    \/ \E c \in Clients, id \in 1..MaxItems : DeleteNews(c, id)
    \/ \E c \in Clients, body \in ProjectBodies : PostProject(c, body)
    \/ \E c \in Clients, id \in 1..MaxItems, body \in UpdateBodies : PutProject(c, id, body)
    \/ \E c \in Clients, id \in 1..MaxItems : DeleteProject(c, id)
    \/ \E c \in Clients, body \in ContentProfileBodies : PutProfile(c, body)

SpecContent == Init /\ [][NextContent]_vars

\* Guards: an administrator, a standard user and anonymous callers on a
\* route behind isAdmin and a route behind isAuthenticated.
NextGuards ==
    \/ \E c \in Clients, body \in ContentRegisterBodies : Register(c, body, "s1")
    \/ \E c \in Clients, body \in LoginBodies : Login(c, body)
    \/ \E c \in Clients : Logout(c)
    \/ \E c \in Clients, sid \in Sids : PresentCookie(c, sid)
    \/ \E c \in Clients : GetUsers(c)
    \/ \E c \in Clients, body \in ContentProfileBodies : PutProfile(c, body)

SpecGuards == Init /\ [][NextGuards]_vars

\* Registration requests whose usernames are 2, 5 and 51 characters long.
LengthBodies ==
    {[username |-> u, password |-> Raw("pw1")] :
        u \in {"al", "alice", "abcdefghijabcdefghijabcdefghijabcdefghijabcdefghijk"}}

\* Registration with usernames of every length, and the session endpoints.
NextLengths ==
    \/ \E c \in Clients, body \in LengthBodies : Register(c, body, "s1")
    \/ \E c \in Clients : Logout(c)
    \/ \E c \in Clients : GetCurrentUser(c)
    \/ \E c \in Clients, sid \in Sids : PresentCookie(c, sid)

SpecLengths == Init /\ [][NextLengths]_vars

\* Two passwords of 73 characters that differ in the last one only.
LongA == "012345678901234567890123456789012345678901234567890123456789012345678901a"

LongB == "012345678901234567890123456789012345678901234567890123456789012345678901b"

\* the password each username registers with
RegisteredWith == [alice |-> LongA, bob |-> "pw1"]

PasswordRegisterBodies ==
    {[username |-> u, password |-> Raw(RegisteredWith[u])] : u \in Usernames}

TriedPasswords == Passwords \cup {LongA, LongB}

PasswordLoginBodies ==
    {[username |-> u, password |-> Raw(p)] : u \in Usernames, p \in TriedPasswords}

\* Registration with one password per username, and logins that try others.
NextPasswords ==
    \/ \E c \in Clients, body \in PasswordRegisterBodies, salt \in Salts :
          Register(c, body, salt)
    \/ \E c \in Clients, body \in PasswordLoginBodies : Login(c, body)
    \/ \E c \in Clients : Logout(c)
    \/ \E c \in Clients : GetCurrentUser(c)

SpecPasswords == Init /\ [][NextPasswords]_vars

\* Registration requests for alice carry no role, or admin, or a role outside
\* the two the site knows; those for bob carry an empty role, user or admin.
RoleBodies ==
    {[username |-> "alice", password |-> Raw("pw1")]}
    \cup {[username |-> "alice", password |-> Raw("pw1"), role |-> r] :
            r \in {"admin", "owner"}}
    \cup {[username |-> "bob", password |-> Raw("pw1"), role |-> r] :
            r \in {"", "user", "admin"}}

\* Registration with every kind of role, and what the accounts then see.
NextRegistration ==
    \/ \E c \in Clients, body \in RoleBodies, salt \in Salts : Register(c, body, salt)
    \/ \E c \in Clients : Logout(c)
    \/ \E c \in Clients : GetCurrentUser(c)
    \/ \E c \in Clients : GetUsers(c)

SpecRegistration == Init /\ [][NextRegistration]_vars

\* The account a session names is gone: storage.getUser(id) resolves
\* undefined for the id the session carries.  MemStorage never removes an
\* account; on the database backend a row can be deleted while the session
\* table still holds the session.
AccountRemoved(id) ==
    /\ id \in DOMAIN users
    /\ users' = MapDelete(users, id)
    /\ UNCHANGED <<userId, newsItems, newsId, projectItems, projectId,
                   sessions, nextSid, cookie, pc, req, resp>>

\* Resolution of the caller: sessions that were destroyed, sessions whose
\* account is gone, the current-identity endpoint and routes behind each of
\* the two guards.
NextResolve ==
    \/ \E c \in Clients, body \in ContentRegisterBodies : Register(c, body, "s1")
    \/ \E c \in Clients : Logout(c)
    \/ \E id \in 1..MaxUsers : AccountRemoved(id)
    \/ \E c \in Clients : GetCurrentUser(c)
    \/ \E c \in Clients : GetUsers(c)
    \/ \E c \in Clients, body \in ContentProfileBodies : PutProfile(c, body)
    \/ \E c \in Clients, body \in NewsBodies : PostNews(c, body)
    \/ \E c \in Clients, id \in 1..MaxItems : DeleteNews(c, id)

SpecResolve == Init /\ [][NextResolve]_vars

\* Profile updates that change the role or the username of the caller.
CurrentProfileBodies == {[role |-> "admin"], [username |-> "carol"]}

\* Accounts that change while sessions bound to them stay open.
NextCurrent ==
    \/ \E c \in Clients, body \in ContentRegisterBodies : Register(c, body, "s1")
    \/ \E c \in Clients, body \in {b \in LoginBodies : b.password = Raw("pw1")} :
          Login(c, body)
    \/ \E c \in Clients : Logout(c)
    \/ \E c \in Clients : GetCurrentUser(c)
    \/ \E c \in Clients : GetUsers(c)
    \/ \E c \in Clients, body \in CurrentProfileBodies : PutProfile(c, body)

SpecCurrent == Init /\ [][NextCurrent]_vars

\* Deletes of news and projects whose awaits other requests run between.
NextDeletes ==
    \/ \E c \in Clients, body \in ContentRegisterBodies : Register(c, body, "s1")
    \/ \E c \in Clients, body \in ContentProfileBodies : PutProfile(c, body)
    \/ \E c \in Clients, body \in NewsBodies : PostNews(c, body)
    \/ \E c \in Clients, body \in ProjectBodies : PostProject(c, body)
    \/ \E c \in Clients, id \in 1..MaxItems : DeleteNewsCheck(c, id)
    \/ \E c \in Clients : DeleteNewsRemove(c)
    \/ \E c \in Clients, id \in 1..MaxItems : DeleteProjectCheck(c, id)
    \/ \E c \in Clients : DeleteProjectRemove(c)

SpecDeletes == Init /\ [][NextDeletes]_vars

\* Login requests that assert a role, as the site's form sends them.
RoleLoginBodies ==
    {b \in LoginBodies : b.password = Raw("pw1")}
    \cup {Merge(b, [role |-> r]) :
            b \in {x \in LoginBodies : x.password = Raw("pw1")},
            r \in {"user", "admin"}}

\* Logins with an asserted role, and what the accounts then may do.
NextLoginRole ==
    \/ \E c \in Clients, body \in ContentRegisterBodies : Register(c, body, "s1")
    \/ \E c \in Clients, body \in RoleLoginBodies : Login(c, body)
    \/ \E c \in Clients : Logout(c)
    \/ \E c \in Clients : GetCurrentUser(c)
    \/ \E c \in Clients : GetUsers(c)

SpecLoginRole == Init /\ [][NextLoginRole]_vars

\* -------------------------------------------------------- PostgresStorage
\* The account methods of PostgresStorage over the users table, and the
\* handlers as they run on that backend.  Each query either returns its rows
\* or throws; io is the outcome the database gives.
IO == {"ok", "error"}

PgOk(rows) == [error |-> FALSE, rows |-> rows]

PgError == [error |-> TRUE, rows |-> {}]

\* a catch that logs the error and returns no rows
PgCatchSwallows(io, rows) == PgOk(IF io = "error" THEN {} ELSE rows)

\* try { return await query } catch (error) { console.error(...); throw error }
PgCatch(io, rows) == IF io = "error" THEN PgError ELSE PgOk(rows)

pgGetUser(id, io) == PgCatch(io, getUser(id))

pgGetUserByUsername(username, io) == PgCatch(io, getUserByUsername(username))

pgGetAllUsers(io) == PgCatch(io, getAllUsers)

\* insert ... returning throws on an I/O error and on the unique constraint
\* of users.username
pgCreateUserThrows(insertUser, io) ==
    PgCatch(io, {}).error \/ getUserByUsername(insertUser.username) /= {}

\* passport.session calls deserializeUser when the session carries a login
Deserializes(c) == SessionUserId(c) /= NoUser

\* deserializeUser: done(null, user), or done(err) when getUser throws
Deserialize(c, io) ==
    IF Deserializes(c) THEN pgGetUser(SessionUserId(c), io) ELSE PgOk({})

\* next(err): the response of the error handler
NextErr(c, op) == Fail(c, op, 500, "internal server error")

\* the response of a handler's own catch
Caught(c, op) == Fail(c, op, 500, "handler error")

\* GET /api/user
PgGetCurrentUser(c, ioD) ==
    /\ pc[c] = "idle"
    /\ resp' = IF Deserialize(c, ioD).error THEN NextErr(c, "user")
               ELSE IF ~reqIsAuthenticated(c)
               THEN Fail(c, "user", 401, "not authorized")
               ELSE Ok(c, "user", 200, {SafeUser(TheUser(c))})
    /\ UNCHANGED <<storeVars, sessions, nextSid, cookie, pc, req>>

\* GET /api/users
PgGetUsers(c, ioD, ioQ) ==
    /\ pc[c] = "idle"
    /\ resp' = IF Deserialize(c, ioD).error THEN NextErr(c, "users")
               ELSE IF isAdmin(c) /= 0
               THEN Fail(c, "users", isAdmin(c), GuardMessage(isAdmin(c)))
               ELSE IF pgGetAllUsers(ioQ).error THEN Caught(c, "users")
               ELSE Ok(c, "users", 200, {SafeUser(u) : u \in pgGetAllUsers(ioQ).rows})
    /\ UNCHANGED <<storeVars, sessions, nextSid, cookie, pc, req>>

\* POST /api/register
PgRegister(c, body, salt, ioD, ioQ, ioW) ==
    /\ pc[c] = "idle"
    /\ LET insertUser == Merge(body, [password |-> hashPassword(body.password, salt)])
       IN  IF Deserialize(c, ioD).error
           THEN /\ resp' = NextErr(c, "register")
                /\ UNCHANGED <<users, userId, sessions, nextSid, cookie>>
           ELSE IF pgGetUserByUsername(body.username, ioQ).error
           THEN /\ resp' = Caught(c, "register")
                /\ UNCHANGED <<users, userId, sessions, nextSid, cookie>>
           ELSE IF pgGetUserByUsername(body.username, ioQ).rows /= {}
           THEN /\ resp' = Fail(c, "register", 400, "username taken")
                /\ UNCHANGED <<users, userId, sessions, nextSid, cookie>>
           ELSE IF pgCreateUserThrows(insertUser, ioW)
           THEN /\ resp' = Caught(c, "register")
                /\ UNCHANGED <<users, userId, sessions, nextSid, cookie>>
           ELSE /\ userId <= MaxUsers
                /\ createUser(insertUser)
                /\ reqLogin(c, users'[userId])
                /\ resp' = Ok(c, "register", 201, {SafeUser(users'[userId])})
    /\ UNCHANGED <<newsItems, newsId, projectItems, projectId, pc, req>>

\* POST /api/login: the strategy answers done(err) when the lookup throws
PgLogin(c, body, ioD, ioQ) ==
    /\ pc[c] = "idle"
    /\ IF Deserialize(c, ioD).error \/ pgGetUserByUsername(body.username, ioQ).error
       THEN /\ resp' = NextErr(c, "login")
            /\ UNCHANGED <<sessions, nextSid, cookie>>
       ELSE LET found == {u \in pgGetUserByUsername(body.username, ioQ).rows :
                             comparePasswords(body.password, u.password)}
            IN  IF found = {}
                THEN /\ resp' = LoginFailure(c, body.username, body.password)
                     /\ UNCHANGED <<sessions, nextSid, cookie>>
                ELSE LET user == CHOOSE u \in found : TRUE
                     IN  /\ reqLogin(c, user)
                         /\ resp' = Ok(c, "login", 200, {SafeUser(user)})
    /\ UNCHANGED <<storeVars, pc, req>>

\* POST /api/logout
PgLogout(c, ioD) ==
    /\ pc[c] = "idle"
    /\ IF Deserialize(c, ioD).error
       THEN /\ resp' = NextErr(c, "logout")
            /\ UNCHANGED <<sessions, nextSid, cookie>>
       ELSE /\ reqLogout(c)
            /\ resp' = Ok(c, "logout", 200, {})
    /\ UNCHANGED <<storeVars, pc, req>>

PgProfileBodies == {[username |-> u] : u \in Usernames}

\* update ... returning throws on an I/O error and on the unique constraint
\* of users.username
pgUpdateUserProfileThrows(id, profile, io) ==
    \/ PgCatch(io, {}).error
    \/ /\ Has(profile, "username")
       /\ \E j \in DOMAIN users : j /= id /\ users[j].username = profile.username

\* PUT /api/users/profile
PgPutProfile(c, body, ioD, ioW) ==
    /\ pc[c] = "idle"
    /\ IF Deserialize(c, ioD).error
       THEN /\ resp' = NextErr(c, "profile")
            /\ UNCHANGED users
       ELSE IF isAuthenticated(c) /= 0
       THEN /\ resp' = Fail(c, "profile", 401, GuardMessage(401))
            /\ UNCHANGED users
       ELSE IF ~updateUserProfileSchema(body)
       THEN /\ resp' = Fail(c, "profile", 400, "validation error")
            /\ UNCHANGED users
       ELSE IF pgUpdateUserProfileThrows(TheUser(c).id, body, ioW)
       THEN /\ resp' = Caught(c, "profile")
            /\ UNCHANGED users
       ELSE /\ updateUserProfile(TheUser(c).id, body)
            /\ resp' = Ok(c, "profile", 200, {SafeUser(users'[TheUser(c).id])})
    /\ UNCHANGED <<userId, newsItems, newsId, projectItems, projectId,
                   sessions, nextSid, cookie, pc, req>>

\* The account handlers on PostgresStorage with queries that may fail.
NextPostgres ==
    \/ \E c \in Clients, body \in PgProfileBodies, ioD, ioW \in IO :
          PgPutProfile(c, body, ioD, ioW)
    \/ \E c \in Clients, body \in ContentRegisterBodies, ioD, ioQ, ioW \in IO :
          PgRegister(c, body, "s1", ioD, ioQ, ioW)
    \/ \E c \in Clients, body \in LoginBodies, ioD, ioQ \in IO :
          PgLogin(c, body, ioD, ioQ)
    \/ \E c \in Clients, ioD \in IO : PgLogout(c, ioD)
    \/ \E c \in Clients, ioD \in IO : PgGetCurrentUser(c, ioD)
    \/ \E c \in Clients, ioD, ioQ \in IO : PgGetUsers(c, ioD, ioQ)

SpecPostgres == Init /\ [][NextPostgres]_vars

\* ------------------------------------------------- the account store, called
\* The methods of IStorage called one at a time on MemStorage; the response
\* records what the call returned (200) or that it threw (500).
StoreBodies ==
    {[username |-> u, password |-> Bcrypt("pw1", "s1")] : u \in Usernames}
    \cup {[username |-> u, password |-> Bcrypt("pw1", "s1"), role |-> "admin"] :
            u \in Usernames}

StoreProfiles == {[username |-> u] : u \in Usernames} \cup {[bio |-> "b"]}

Returned(op, accounts) == Ok("", op, 200, accounts)

Threw(op) == Fail("", op, 500, "error")

MemCreateUser(insertUser) ==
    /\ userId <= MaxUsers
    /\ createUser(insertUser)
    /\ resp' = Returned("createUser", {users'[userId]})
    /\ UNCHANGED <<newsItems, newsId, projectItems, projectId,
                   sessions, nextSid, cookie, pc, req>>

MemUpdateUserProfile(id, profile) ==
    /\ IF id \notin DOMAIN users
       THEN /\ resp' = Returned("updateUserProfile", {})
            /\ UNCHANGED users
       ELSE /\ updateUserProfile(id, profile)
            /\ resp' = Returned("updateUserProfile", {users'[id]})
    /\ UNCHANGED <<userId, newsItems, newsId, projectItems, projectId,
                   sessions, nextSid, cookie, pc, req>>

MemGetUser(id) ==
    /\ resp' = OfItem(Returned("getUser", getUser(id)), id)
    /\ UNCHANGED <<storeVars, sessions, nextSid, cookie, pc, req>>

MemGetUserByUsername(username) ==
    /\ resp' = Returned("getUserByUsername", getUserByUsername(username))
    /\ UNCHANGED <<storeVars, sessions, nextSid, cookie, pc, req>>

MemGetAllUsers ==
    /\ resp' = Returned("getAllUsers", getAllUsers)
    /\ UNCHANGED <<storeVars, sessions, nextSid, cookie, pc, req>>

\* the row the users table holds after an insert: serial id, the defaults of
\* the columns the values do not name
PgNewUser(insertUser, id) ==
    Merge([avatar |-> Null, bio |-> Null, role |-> "user"],
          Merge(insertUser, [id |-> id]))

\* what PostgresStorage.createUser answers on the same table
PgCreateUser(insertUser) ==
    IF pgCreateUserThrows(insertUser, "ok")
    THEN Threw("createUser")
    ELSE Returned("createUser", {PgNewUser(insertUser, userId)})

\* what PostgresStorage.updateUserProfile answers on the same table
PgUpdateUserProfile(id, profile) ==
    IF pgUpdateUserProfileThrows(id, profile, "ok")
    THEN Threw("updateUserProfile")
    ELSE Returned("updateUserProfile",
                  {Merge(u, profile) : u \in pgGetUser(id, "ok").rows})

NextStore ==
    \/ \E insertUser \in StoreBodies : MemCreateUser(insertUser)
    \/ \E id \in 1..MaxUsers, profile \in StoreProfiles :
          MemUpdateUserProfile(id, profile)
    \/ \E id \in 1..MaxUsers : MemGetUser(id)
    \/ \E username \in Usernames : MemGetUserByUsername(username)
    \/ MemGetAllUsers

SpecStore == Init /\ [][NextStore]_vars

\* ------------------------------------------------------------------ claims
Responded == resp' /= resp

\* C1: concurrent registrations for one username never both succeed: at most
\* one stored account is created per username, in every interleaving of the
\* registration handler's steps.
C1_AtMostOneRegistration ==
    \A u \in Usernames : Cardinality({i \in DOMAIN users : users[i].username = u}) <= 1

\* C2: a profile update, whatever its body carries, leaves the role and the
\* password of every stored account as they were.
C2_ProfileKeepsRoleAndPassword ==
    [][(resp'.op = "profile" /\ (Responded \/ users' /= users)) =>
          \A i \in DOMAIN users :
              /\ users'[i].role = users[i].role
              /\ users'[i].password = users[i].password]_vars

\* C3: no account object in a response body has a password field.
C3_NoPasswordInResponse ==
    \A a \in resp.accounts : ~Has(a, "password")

C3_Witness ==
    /\ resp.op = "users"
    /\ resp.status = 200
    /\ Cardinality(resp.accounts) >= 2

\* C4: after a successful login the client's session resolves to the account
\* that logged in; after a logout the session the client presented resolves to
\* no account; and a session identifier that was issued and resolves to no
\* account never resolves to an account again.
C4_LoginThenLogout ==
    [][/\ \A c \in Clients :
            /\ (resp'.client = c /\ resp'.op = "login" /\ resp'.status = 200
                  /\ (Responded \/ sessions' /= sessions)) =>
               {SafeUser(u) : u \in reqUser(c)'} = resp'.accounts
            /\ (resp'.client = c /\ resp'.op = "logout"
                  /\ (Responded \/ sessions' /= sessions)) =>
               /\ ~reqIsAuthenticated(c)'
               /\ cookie[c] /= NoSid => sessions'[cookie[c]] = NoUser
       /\ \A s \in Sids :
            (s < nextSid /\ sessions[s] = NoUser) => sessions'[s] = NoUser]_vars

\* a client presents a session that was bound to an account and destroyed,
\* and the current-identity endpoint answers 401
C4_Witness ==
    /\ resp.op = "user"
    /\ resp.status = 401
    /\ cookie[resp.client] /= NoSid
    /\ cookie[resp.client] < nextSid
    /\ sessions[cookie[resp.client]] = NoUser

\* C5: an authenticated update or delete of an existing news item or project
\* is denied with 403 exactly when the caller is neither an administrator nor
\* the owner of the item.
C5_OwnerOrAdminDecision ==
    [][\A c \in Clients :
         /\ (/\ resp'.client = c
             /\ resp'.op \in {"putNews", "deleteNews"}
             /\ Responded \/ newsItems' /= newsItems
             /\ reqIsAuthenticated(c)
             /\ resp'.id \in DOMAIN newsItems) =>
            /\ resp'.status \in {200, 204, 403}
            /\ resp'.status = 403 <=>
                 ~(TheUser(c).role = "admin"
                     \/ TheUser(c).id = newsItems[resp'.id].userId)
         /\ (/\ resp'.client = c
             /\ resp'.op \in {"putProject", "deleteProject"}
             /\ Responded \/ projectItems' /= projectItems
             /\ reqIsAuthenticated(c)
             /\ resp'.id \in DOMAIN projectItems) =>
            /\ resp'.status \in {200, 204, 403}
            /\ resp'.status = 403 <=>
                 ~(TheUser(c).role = "admin"
                     \/ TheUser(c).id = projectItems[resp'.id].userId)]_vars

\* a standard user updated a news item of their own
C5_Witness ==
    /\ resp.op = "putNews"
    /\ resp.status = 200
    /\ reqIsAuthenticated(resp.client)
    /\ TheUser(resp.client).role = "user"
    /\ resp.id \in DOMAIN newsItems
    /\ newsItems[resp.id].userId = TheUser(resp.client).id

\* C6: a request answered 401 or 403 leaves the stored users, news and projects
\* exactly as they were.
C6_DeniedChangesNothing ==
    [][resp'.status \in {401, 403} => UNCHANGED storeVars]_vars

C6_Witness ==
    /\ resp.op = "deleteNews"
    /\ resp.status = 403
    /\ resp.id \in DOMAIN newsItems

Taken(username) == \E i \in DOMAIN users : users[i].username = username

\* C7: a registration for a username that a stored account holds answers 400
\* and leaves the accounts as they were; a registration for a free username
\* answers 201 and adds exactly the one account.
C7_SecondRegistrationFails ==
    [][resp'.op = "register" =>
         \A c \in Clients, body \in OnePassword :
           (resp'.client = c /\ Register(c, body, "s1")) =>
             IF Taken(body.username)
             THEN /\ resp'.status = 400
                  /\ UNCHANGED <<users, userId>>
             ELSE /\ resp'.status = 201
                  /\ DOMAIN users' = DOMAIN users \cup {userId}
                  /\ users'[userId].username = body.username
                  /\ \A i \in DOMAIN users : users'[i] = users[i]]_vars

C7_Witness ==
    /\ resp.op = "register"
    /\ resp.status = 400
    /\ Cardinality(DOMAIN users) = 1

\* C8: no two stored accounts have the same username, after any sequence of
\* registrations and profile updates.
C8_UsernameUnique ==
    \A i, j \in DOMAIN users : i /= j => users[i].username /= users[j].username

\* C9: the response to a failed login is the same whether the username is
\* unknown or the username is known and the password wrong.
C9_FailureIsGeneric ==
    \A c \in Clients, unknown, wrong \in LoginBodies :
        (/\ ~Taken(unknown.username)
         /\ Taken(wrong.username)
         /\ LocalStrategyVerify(wrong.username, wrong.password) = {}) =>
        /\ LoginFailure(c, unknown.username, unknown.password)
             = LoginFailure(c, wrong.username, wrong.password)
        /\ (resp.op = "login" /\ resp.client = c /\ resp.status /= 200) =>
             resp = LoginFailure(c, wrong.username, wrong.password)

C9_Witness ==
    /\ resp.op = "login"
    /\ resp.status = 401
    /\ \E u \in Usernames : Taken(u)
    /\ \E u \in Usernames : ~Taken(u)

\* C10: a successful login (and the login that ends a registration) binds the
\* account to a session identifier that was never issued before: no client
\* held or presented it before the login.
C10_FreshSessionOnLogin ==
    [][\A c \in Clients :
         (/\ resp'.client = c
          /\ \/ resp'.op = "login" /\ resp'.status = 200
             \/ resp'.op = "register" /\ resp'.status = 201
          /\ Responded \/ sessions' /= sessions) =>
         /\ cookie'[c] /= cookie[c]
         /\ cookie'[c] >= nextSid
         /\ \A d \in Clients : cookie[d] /= cookie'[c]
         /\ sessions[cookie'[c]] = NoUser
         /\ sessions'[cookie'[c]] /= NoUser]_vars

\* a client that held a session logged in
C10_Witness ==
    /\ resp.op = "login"
    /\ resp.status = 200
    /\ cookie[resp.client] > 1
    /\ sessions[cookie[resp.client]] /= NoUser

\* C12: a logout always answers 200; on a session that resolves to no account
\* (destroyed before, or never bound) it changes nothing; and the state after
\* a logout is the state a second logout would leave.
C12_LogoutIdempotent ==
    [][\A c \in Clients :
         Logout(c) =>
           /\ resp'.status = 200
           /\ ~reqIsAuthenticated(c) =>
                UNCHANGED <<sessions, cookie, nextSid, storeVars>>
           /\ sessions' =
                [s \in Sids |-> IF s = cookie'[c] THEN NoUser ELSE sessions'[s]]
           /\ UNCHANGED <<cookie, nextSid>>]_vars

\* a client that never held a session logged out and was answered 200
C12_Witness ==
    /\ resp.op = "logout"
    /\ resp.status = 200
    /\ cookie[resp.client] = NoSid
    /\ nextSid > 1

\* C13: the admin guard lets a request through exactly when the caller's
\* session resolves to an account whose role is admin, answers 401 to a caller
\* whose session resolves to no account and 403 to an authenticated caller of
\* another role; the authenticated guard lets through exactly the callers
\* whose session resolves to an account, and answers 401 to the others.
C13_GuardDecisions ==
    [][/\ resp'.op = "users" =>
            \A c \in Clients :
              (resp'.client = c /\ GetUsers(c)) =>
                 resp'.status = IF reqUser(c) = {} THEN 401
                                ELSE IF TheUser(c).role = "admin" THEN 200
                                ELSE 403
       /\ resp'.op = "profile" =>
            \A c \in Clients, body \in ContentProfileBodies :
              (resp'.client = c /\ PutProfile(c, body))
                 => (resp'.status = 401 <=> reqUser(c) = {})
       /\ \A c \in Clients :
            /\ isAdmin(c) = 0 <=> \E u \in reqUser(c) : u.role = "admin"
            /\ isAuthenticated(c) = 0 <=> reqUser(c) /= {}]_vars

\* an authenticated standard user asked for the list of users and got 403
C13_Witness ==
    /\ resp.op = "users"
    /\ resp.status = 403
    /\ reqIsAuthenticated(resp.client)
    /\ TheUser(resp.client).role = "user"

\* C14: a request of a caller who is not an administrator never leaves a
\* stored account with the role admin that did not have it before.
C14_RoleNotFromClient ==
    [][\A i \in DOMAIN users' :
         (/\ users'[i].role = "admin"
          /\ ~(i \in DOMAIN users /\ users[i].role = "admin")) =>
         \E c \in Clients :
            /\ resp'.client = c
            /\ \E u \in reqUser(c) : u.role = "admin"]_vars

\* C15: a registration that succeeds takes an id no stored account has and
\* leaves the other accounts as they were, also while another registration is
\* in flight; if no account held its username, the lookup of that username
\* then returns exactly the new account; and at any time the lookup of a
\* username that one account holds returns exactly that account, whose id
\* field is its key.
C15_DistinctIdsAndLookup ==
    [][/\ \A c \in Clients :
            RegisterCreate(c) =>
              /\ resp'.status = 201
              /\ userId \notin DOMAIN users
              /\ DOMAIN users' = DOMAIN users \cup {userId}
              /\ \A i \in DOMAIN users : users'[i] = users[i]
              /\ \A name \in Usernames :
                   (req[c].username = name /\ ~Taken(name)) =>
                     /\ getUserByUsername(name)' = {users'[userId]}
                     /\ resp'.accounts = {SafeUser(users'[userId])}
       /\ \A i \in DOMAIN users :
            /\ users[i].id = i
            /\ (\A j \in DOMAIN users : users[j].username = users[i].username => j = i)
                 => getUserByUsername(users[i].username) = {users[i]}]_vars

\* a registration succeeded while a registration for another username is
\* past its check and about to create its account
C15_Witness ==
    /\ resp.op = "register"
    /\ resp.status = 201
    /\ \E c \in Clients, i \in DOMAIN users :
          /\ pc[c] = "create"
          /\ req[c].username /= users[i].username

\* the response and the effect of a request that met a failed query
Failed ==
    /\ resp'.status = 500
    /\ resp'.accounts = {}
    /\ UNCHANGED <<storeVars, sessions, nextSid, cookie>>

\* C16: on the database backend, a request in which a query of the account
\* store fails (the lookup of the session's account, the lookup by username,
\* the list of accounts, the insert) is answered 500 with no account in the
\* body and changes neither the accounts nor the sessions; and every account
\* method answers a failed query with an error, never with rows or none.
C16_FailureNotMasked ==
    [][/\ \A c \in Clients, ioD \in IO :
            resp'.client = c =>
            LET dFails == Deserializes(c) /\ ioD = "error"
            IN  /\ (dFails /\ resp'.op = "user" /\ PgGetCurrentUser(c, ioD))
                      => Failed
                /\ (dFails /\ resp'.op = "logout" /\ PgLogout(c, ioD)) => Failed
                /\ \A ioQ \in IO :
                     ((dFails \/ (isAdmin(c) = 0 /\ ioQ = "error"))
                        /\ resp'.op = "users" /\ PgGetUsers(c, ioD, ioQ))
                        => Failed
                /\ \A ioW \in IO, body \in PgProfileBodies :
                     ((dFails \/ (reqIsAuthenticated(c) /\ ioW = "error"))
                        /\ resp'.op = "profile" /\ PgPutProfile(c, body, ioD, ioW))
                        => Failed
                /\ \A ioQ \in IO, body \in LoginBodies :
                     ((dFails \/ ioQ = "error")
                        /\ resp'.op = "login" /\ PgLogin(c, body, ioD, ioQ))
                        => Failed
                /\ \A ioQ, ioW \in IO, body \in ContentRegisterBodies :
                     ((dFails \/ ioQ = "error"
                         \/ (~Taken(body.username) /\ ioW = "error"))
                        /\ resp'.op = "register"
                        /\ PgRegister(c, body, "s1", ioD, ioQ, ioW))
                        => Failed
       /\ \A i \in 0..MaxUsers, u \in Usernames :
            /\ pgGetUser(i, "error").error
            /\ pgGetUserByUsername(u, "error").error
            /\ pgGetAllUsers("error").error
            /\ pgCreateUserThrows([username |-> u], "error")
            /\ pgUpdateUserProfileThrows(i, [username |-> u], "error")]_vars

\* an administrator's request for the list of users was answered 500
C16_Witness ==
    /\ resp.op = "users"
    /\ resp.status = 500
    /\ reqIsAuthenticated(resp.client)
    /\ TheUser(resp.client).role = "admin"
    /\ Cardinality(DOMAIN users) = 2

\* C17: a registration whose username is shorter than 3 or longer than 50
\* characters is answered 400 and creates no account, and every stored account
\* has a username of 3 to 50 characters.
C17_UsernameLengthValidated ==
    [][/\ \A c \in Clients, body \in LengthBodies :
            (/\ Len(body.username) < UsernameMin \/ Len(body.username) > UsernameMax
             /\ Register(c, body, "s1")) =>
            /\ resp'.status = 400
            /\ UNCHANGED <<users, userId>>
       /\ \A i \in DOMAIN users :
            /\ Len(users[i].username) >= UsernameMin
            /\ Len(users[i].username) <= UsernameMax]_vars

\* C18: every news item and every project that a request creates carries as
\* userId the id of the account the caller's session resolves to, and the
\* creation is answered 201 with the new item's id; the userId of the request
\* body is not stored.
C18_OwnerStamped ==
    [][/\ \A i \in (DOMAIN newsItems') \ (DOMAIN newsItems) :
            /\ resp'.op = "postNews" /\ resp'.status = 201 /\ resp'.id = i
            /\ \E c \in Clients :
                 /\ resp'.client = c
                 /\ reqIsAuthenticated(c)
                 /\ newsItems'[i].userId = TheUser(c).id
       /\ \A i \in (DOMAIN projectItems') \ (DOMAIN projectItems) :
            /\ resp'.op = "postProject" /\ resp'.status = 201 /\ resp'.id = i
            /\ \E c \in Clients :
                 /\ resp'.client = c
                 /\ reqIsAuthenticated(c)
                 /\ projectItems'[i].userId = TheUser(c).id
       /\ (resp'.op = "postNews" /\ resp'.status = 201
             /\ (Responded \/ newsItems' /= newsItems)) =>
            resp'.id \in (DOMAIN newsItems') \ (DOMAIN newsItems)
       /\ (resp'.op = "postProject" /\ resp'.status = 201
             /\ (Responded \/ projectItems' /= projectItems)) =>
            resp'.id \in (DOMAIN projectItems') \ (DOMAIN projectItems)]_vars

\* the second account created a news item from a body that names another
\* userId, and the item carries the account's id
C18_Witness ==
    /\ resp.op = "postNews"
    /\ resp.status = 201
    /\ resp.id \in DOMAIN newsItems
    /\ reqIsAuthenticated(resp.client)
    /\ TheUser(resp.client).id = 2
    /\ newsItems[resp.id].userId = 2
    /\ \A body \in NewsBodies : insertNewsSchema(body) => body.userId /= 2

\* C19: a password verifies against the digest of a password exactly when
\* the two are the same string, and a login is answered 200 only when its
\* password is the one the account was registered with.
C19_VerifyExact ==
    [][/\ \A p, q \in TriedPasswords, s \in Salts :
            comparePasswords(Raw(p), hashPassword(Raw(q), s)) <=> (p = q)
       /\ \A c \in Clients, body \in PasswordLoginBodies :
            (resp'.op = "login" /\ resp'.status = 200 /\ Login(c, body)) =>
               body.password = Raw(RegisteredWith[body.username])]_vars

\* C20: createUser for a username that a stored account holds adds no account
\* and reports an error, so the request that called it is not answered 201.
C20_CreateRejectsTaken ==
    [][\A c \in Clients :
         (pc[c] = "create" /\ Taken(req[c].username) /\ RegisterCreate(c)) =>
            /\ UNCHANGED <<users, userId>>
            /\ resp'.status /= 201]_vars

\* C21: every call of createUser and updateUserProfile on the in-memory
\* backend returns what the relational backend answers to the same call on
\* the same stored accounts: the same success or failure, the same account.
C21_BackendsAgree ==
    [][/\ resp'.op = "createUser" =>
            \A insertUser \in StoreBodies :
               MemCreateUser(insertUser) => resp' = PgCreateUser(insertUser)
       /\ resp'.op = "updateUserProfile" =>
            \A id \in 1..MaxUsers, profile \in StoreProfiles :
               MemUpdateUserProfile(id, profile) =>
                  resp' = PgUpdateUserProfile(id, profile)]_vars

\* C22: the role of every stored account is user or admin.
C22_RoleClosed ==
    \A i \in DOMAIN users : users[i].role \in {"user", "admin"}

\* C23: a registration whose body has no role stores the account with the
\* role user.
C23_RoleDefaultsToUser ==
    [][resp'.op = "register" =>
         \A c \in Clients, body \in RoleBodies, salt \in Salts :
            (/\ ~Has(body, "role")
             /\ resp'.client = c
             /\ resp'.status = 201
             /\ Register(c, body, salt)) =>
            /\ users'[userId].role = "user"
            /\ \A a \in resp'.accounts : a.role = "user"]_vars

\* alice, whose registrations carry either no role or another role than
\* user, is stored with the role user
C23_Witness ==
    /\ \E i \in DOMAIN users :
          users[i].username = "alice" /\ users[i].role = "user"
    /\ \A body \in RoleBodies :
          (body.username = "alice" /\ Has(body, "role")) => body.role /= "user"

\* C25: the password a registration stores is the bcrypt digest that
\* hashPassword makes of the request's password, and not the request's
\* password itself.
C25_OnlyHashStored ==
    [][resp'.op = "register" =>
         \A c \in Clients, body \in RoleBodies, salt \in Salts :
            (resp'.client = c /\ resp'.status = 201 /\ Register(c, body, salt)) =>
            /\ users'[userId].password = hashPassword(body.password, salt)
            /\ users'[userId].password.alg = "bcrypt"
            /\ users'[userId].password /= body.password]_vars

\* a registration was answered 201 and the account it stored holds a digest
C25_Witness ==
    /\ resp.op = "register"
    /\ resp.status = 201
    /\ \E i \in DOMAIN users :
          /\ users[i].password.alg = "bcrypt"
          /\ users[i].password.salt = "s2"
          /\ \E a \in resp.accounts : a.id = i

\* the routes behind isAuthenticated or isAdmin, and the current-identity
\* endpoint
GuardedOps ==
    {"user", "users", "profile", "postNews", "putNews", "deleteNews",
     "postProject", "putProject", "deleteProject"}

\* the session the client presents is unknown to the session store
UnknownSession(c) == cookie[c] = NoSid \/ sessions[cookie[c]] = NoUser

\* the session names an account id for which the store has no account
AccountGone(c) == ~UnknownSession(c) /\ sessions[cookie[c]] \notin DOMAIN users

C26_OwnerNeverChanges ==
    [][/\ \A i \in (DOMAIN newsItems) \cap (DOMAIN newsItems') :
            /\ newsItems'[i].userId = newsItems[i].userId
            /\ newsItems'[i].id = newsItems[i].id
       /\ \A i \in (DOMAIN projectItems) \cap (DOMAIN projectItems') :
            /\ projectItems'[i].userId = projectItems[i].userId
            /\ projectItems'[i].id = projectItems[i].id]_vars

C28_GuardsSeeCurrentAccount ==
    [][/\ \A c \in Clients :
            LET id == SessionUserId(c)'
            IN  /\ reqUser(c)' = IF id \in DOMAIN users' THEN {users'[id]} ELSE {}
                /\ id \in DOMAIN users' =>
                     /\ isAuthenticated(c)' = 0
                     /\ isAdmin(c)' = 0 <=> users'[id].role = "admin"
       /\ resp'.op = "users" =>
            \A c \in Clients :
              (resp'.client = c /\ GetUsers(c) /\ SessionUserId(c) \in DOMAIN users)
                 => (resp'.status = 200 <=> users[SessionUserId(c)].role = "admin")]_vars

\* bob, registered as a standard user, was given the list of users after the
\* stored role of the account had become admin
C28_Witness ==
    /\ resp.op = "users"
    /\ resp.status = 200
    /\ \E u \in reqUser(resp.client) : u.username = "bob" /\ u.role = "admin"
    /\ \A b \in ContentRegisterBodies : b.username = "bob" => ~Has(b, "role")

\* the request of client c to delete item id has passed its checks and waits
\* for the store to delete
Deleting(c, kind, id) == pc[c] = kind /\ req[c].id = id

\* C29: of two deletes of the same existing news item (or project) that have
\* both passed their checks, the one the store serves first answers 204 and
\* the other, whenever it is served, answers 404: a delete that reaches the
\* store answers 204 exactly when the item is still there and 404 otherwise,
\* the item is absent afterwards, the other request stays in flight, and an
\* item once deleted never comes back.
C29_ConcurrentDeletes ==
    [][/\ resp'.op = "deleteNews" =>
            \A c \in Clients :
              (resp'.client = c /\ DeleteNewsRemove(c)) =>
                 /\ resp'.status = IF req[c].id \in DOMAIN newsItems THEN 204 ELSE 404
                 /\ req[c].id \notin DOMAIN newsItems'
                 /\ \A d \in Clients \ {c} :
                      Deleting(d, "deleteNews", req[c].id) =>
                         /\ pc'[d] = "deleteNews" /\ req'[d].id = req[c].id
                         /\ ENABLED DeleteNewsRemove(d)
       /\ resp'.op = "deleteProject" =>
            \A c \in Clients :
              (resp'.client = c /\ DeleteProjectRemove(c)) =>
                 /\ resp'.status = IF req[c].id \in DOMAIN projectItems THEN 204 ELSE 404
                 /\ req[c].id \notin DOMAIN projectItems'
                 /\ \A d \in Clients \ {c} :
                      Deleting(d, "deleteProject", req[c].id) =>
                         /\ pc'[d] = "deleteProject" /\ req'[d].id = req[c].id
                         /\ ENABLED DeleteProjectRemove(d)
       /\ \A i \in 1..MaxItems :
            /\ (i < newsId /\ i \notin DOMAIN newsItems) => i \notin DOMAIN newsItems'
            /\ (i < projectId /\ i \notin DOMAIN projectItems)
                  => i \notin DOMAIN projectItems'
       /\ \A c \in Clients :
            /\ pc[c] = "deleteNews" => req[c].id < newsId
            /\ pc[c] = "deleteProject" => req[c].id < projectId]_vars

\* two deletes of one news item had both passed their checks; the first was
\* answered 204, the item is gone, and the second still waits for the store
C29_Witness ==
    /\ resp.op = "deleteNews"
    /\ resp.status = 204
    /\ resp.id \notin DOMAIN newsItems
    /\ \E d \in Clients \ {resp.client} : Deleting(d, "deleteNews", resp.id)

\* C30: a login is rejected exactly when the username is unknown or the
\* password does not verify; a rejected login answers 401, creates no session
\* and re-binds none, leaves every client's cookie and resolved account as
\* they were (a caller who was authenticated stays authenticated as the same
\* account), and leaves the account store unchanged.
C30_FailedLoginChangesNothing ==
    [][resp'.op = "login" =>
         \A c \in Clients, body \in LoginBodies :
            (resp'.client = c /\ Login(c, body)) =>
               /\ resp'.status /= 200
                    <=> LocalStrategyVerify(body.username, body.password) = {}
               /\ resp'.status /= 200 =>
                    /\ resp'.status = 401
                    /\ resp'.accounts = {}
                    /\ sessions' = sessions
                    /\ nextSid' = nextSid
                    /\ cookie' = cookie
                    /\ storeVars' = storeVars
                    /\ \A d \in Clients : reqUser(d)' = reqUser(d)]_vars

\* a client's login was rejected and the client is authenticated, on the
\* session it held, as an account registered before
C30_Witness ==
    /\ resp.op = "login"
    /\ resp.status = 401
    /\ reqIsAuthenticated(resp.client)
    /\ cookie[resp.client] = nextSid - 1

====
